---- MODULE Spec2Model ----
(***************************************************************************)
(* Model of the append-only Merkle tree of src/src/main.rs.                *)
(*                                                                         *)
(* The tree is a vector of levels (levels[0] = leaves); append(key) hashes *)
(* the key, pushes the leaf and rebuilds every level above it; root()      *)
(* reads the first hash of the last level.                                 *)
(*                                                                         *)
(* Rust vectors are 0-based; TLA+ sequences are 1-based.  At(v, i) reads   *)
(* the element the code writes as v[i], and every indexed access of the    *)
(* code is guarded by InBounds, so that an out-of-range index is recorded  *)
(* as a panic instead of being silently defined.                           *)
(*                                                                         *)
(* SHA-256 is modelled as a collision-free primitive: a digest is the      *)
(* term <<"sha256", input>>, so two digests are equal exactly when their   *)
(* inputs are equal.                                                       *)
(***************************************************************************)
EXTENDS Integers, Sequences, FiniteSets, TLC

VARIABLES levels,     \* MerkleTree.levels : Vec<Vec<Hash>>
          keys,       \* history: the keys passed to append, oldest first
          result,     \* what the latest call of root() returned
          lastOp,     \* the latest call: "new", "append" or "root"
          status,     \* how the latest append ended: "ok", "panic", "diverged"
          truncated   \* number of levels the latest append's truncate removed

vars == <<levels, keys, result, lastOp, status, truncated>>

---------------------------------------------------------------------------
(* Bounds of the model *)

\* number of append calls explored
MaxAppends == 6

\* the keys fed to append: key 0, a repeated key, a key above one byte
Keys == {0, 256}

---------------------------------------------------------------------------
(* Vec indexing *)

\* v[i] is a valid access of a Rust Vec (0-based)
InBounds(v, i) == i >= 0 /\ i < Len(v)

\* v[i] of a Rust Vec (0-based)
At(v, i) == v[i + 1]

---------------------------------------------------------------------------
(* Hash functions *)

\* the low n bytes of key, most significant first
RECURSIVE be_bytes(_, _)
be_bytes(key, n) ==
    IF n = 0 THEN << >> ELSE Append(be_bytes(key \div 256, n - 1), key % 256)

\* u64::to_be_bytes: the 8 bytes of the key, big endian
to_be_bytes(key) == be_bytes(key, 8)

\* Sha256::new() ... update(input) ... finalize(): collision-free digest
Sha256(input) == <<"sha256", input>>

\* hash_key: SHA-256 of the 8 big-endian bytes of the key
hash_key(key) == Sha256(to_be_bytes(key))

\* the mutation: both updates feed the left child
hash_internal_left_twice(left, right) == Sha256(<<left, left>>)

\* the mutation: the children are fed in the opposite order
hash_internal_swapped(left, right) == Sha256(<<right, left>>)

\* hash_internal: SHA-256 of left || right.  Both children are 32-byte
\* blocks, so the concatenation is the pair of the two blocks.
hash_internal(left, right) == Sha256(<<left, right>>)

---------------------------------------------------------------------------
(* MerkleTree *)

\* MerkleTree::new
new == << >>

\* Option<Hash>
None == <<"None">>
Some(h) == <<"Some", h>>

\* no call of root() has returned yet
NoResult == <<"NoResult">>

\* the mutation: the leaf is inserted at the front of the leaf level
push_leaf_front(lv, leaf) ==
    IF lv = << >>
    THEN Append(lv, <<leaf>>)
    ELSE [lv EXCEPT ![1] = <<leaf>> \o @]

\* append, lines 148-155: create the leaf level or push onto it
push_leaf(lv, leaf) ==
    IF lv = << >>
    THEN Append(lv, <<leaf>>)
    ELSE [lv EXCEPT ![1] = Append(@, leaf)]

\* the mutation: a level of two nodes is taken for the root level
is_root_level_two(below) == Len(below) <= 2

\* append, line 166: the level below is the root level
is_root_level(below) == Len(below) = 1

\* the mutation: the truncation is one level too short
truncate_short(lv, len) ==
    IF len - 1 < Len(lv) THEN SubSeq(lv, 1, len - 1) ELSE lv

\* Vec::truncate as called on line 168: keep the first len levels
truncate(lv, len) ==
    IF len < Len(lv) THEN SubSeq(lv, 1, len) ELSE lv

\* the mutation: the right sibling test is off by one
has_right_off_by_one(below, i) == i + 1 <= Len(below)

\* append, line 180: there is a right sibling
has_right(below, i) == i + 1 < Len(below)

\* the mutation: a trailing node without a sibling is dropped, not duplicated
RECURSIVE build_next_level_drop_odd(_, _, _)
build_next_level_drop_odd(below, i, next_level) ==
    IF ~(i + 1 < Len(below))
    THEN [next_level |-> next_level, panic |-> FALSE]
    ELSE build_next_level_drop_odd(below, i + 2,
             Append(next_level, hash_internal(At(below, i), At(below, i + 1))))

\* append, lines 173-190: the next level, built from below by hashing pairs;
\* panic records an out-of-range access of below
RECURSIVE build_next_level(_, _, _)
build_next_level(below, i, next_level) ==
    IF ~(i < Len(below))
    THEN [next_level |-> next_level, panic |-> FALSE]
    ELSE IF ~InBounds(below, i)
    THEN [next_level |-> next_level, panic |-> TRUE]
    ELSE LET left == At(below, i) IN
         IF has_right(below, i)
         THEN IF ~InBounds(below, i + 1)
              THEN [next_level |-> next_level, panic |-> TRUE]
              ELSE build_next_level(below, i + 2,
                       Append(next_level, hash_internal(left, At(below, i + 1))))
         ELSE build_next_level(below, i + 2,
                  Append(next_level, hash_internal(left, left)))

\* the mutation: the next level is always pushed, never replaced
store_level_always_push(lv, level_index, next_level) ==
    [levels |-> Append(lv, next_level), panic |-> FALSE]

\* append, lines 193-199: replace the level at level_index or push a new one
store_level(lv, level_index, next_level) ==
    IF Len(lv) > level_index
    THEN IF InBounds(lv, level_index)
         THEN [levels |-> [lv EXCEPT ![level_index + 1] = next_level],
               panic  |-> FALSE]
         ELSE [levels |-> lv, panic |-> TRUE]
    ELSE [levels |-> Append(lv, next_level), panic |-> FALSE]

\* append, lines 160-203: the rebuild loop from level_index upward.  fuel is
\* the number of iterations left before the loop is reported as not ending.
RECURSIVE rebuild(_, _, _)
rebuild(lv, level_index, fuel) ==
    IF fuel = 0
    THEN [levels |-> lv, status |-> "diverged", truncated |-> 0]
    ELSE IF ~InBounds(lv, level_index - 1)
    THEN [levels |-> lv, status |-> "panic", truncated |-> 0]
    ELSE LET below == At(lv, level_index - 1) IN
         IF is_root_level(below)
         THEN LET kept == truncate(lv, level_index) IN
              [levels |-> kept, status |-> "ok",
               truncated |-> Len(lv) - Len(kept)]
         ELSE LET built == build_next_level(below, 0, << >>) IN
              IF built.panic
              THEN [levels |-> lv, status |-> "panic", truncated |-> 0]
              ELSE LET stored == store_level(lv, level_index, built.next_level) IN
                   IF stored.panic
                   THEN [levels |-> lv, status |-> "panic", truncated |-> 0]
                   ELSE rebuild(stored.levels, level_index + 1, fuel - 1)

\* A tree of n leaves has at most n + 1 levels, so a loop that ends takes at
\* most that many iterations.
LoopFuel(lv) == Len(lv[1]) + 2

\* MerkleTree::append as a function of the tree before the call
append_tree(lv, key) ==
    LET pushed == push_leaf(lv, hash_key(key)) IN
    rebuild(pushed, 1, LoopFuel(pushed))

\* the mutation: the top level is popped instead of borrowed
root_pop(lv) ==
    IF lv = << >> THEN [value |-> None, levels |-> lv]
    ELSE LET last_level == lv[Len(lv)] IN
         [value  |-> IF last_level = << >> THEN None ELSE Some(At(last_level, 0)),
          levels |-> SubSeq(lv, 1, Len(lv) - 1)]

\* MerkleTree::root: the value returned and the tree after the call
root_call(lv) ==
    IF lv = << >> THEN [value |-> None, levels |-> lv]
    ELSE LET last_level == lv[Len(lv)] IN
         [value  |-> IF last_level = << >> THEN None ELSE Some(At(last_level, 0)),
          levels |-> lv]

\* the value root() returns on the tree lv
root(lv) == root_call(lv).value

---------------------------------------------------------------------------
(* The program: a caller that owns one tree *)

Init ==
    /\ levels = new
    /\ keys = << >>
    /\ result = NoResult
    /\ lastOp = "new"
    /\ status = "ok"
    /\ truncated = 0

\* tree.append(key)
append(key) ==
    /\ status = "ok"
    /\ Len(keys) < MaxAppends
    /\ LET r == append_tree(levels, key) IN
         /\ levels' = r.levels
         /\ status' = r.status
         /\ truncated' = r.truncated
    /\ keys' = Append(keys, key)
    /\ lastOp' = "append"
    /\ UNCHANGED result

\* tree.root()
RootCall ==
    /\ status = "ok"
    /\ LET r == root_call(levels) IN
         /\ result' = r.value
         /\ levels' = r.levels
    /\ lastOp' = "root"
    /\ UNCHANGED <<keys, status, truncated>>

Next ==
    \/ \E key \in Keys : append(key)
    \/ RootCall

Spec == Init /\ [][Next]_vars

---------------------------------------------------------------------------
(* Reference definitions of the specification *)

CeilHalf(n) == (n + 1) \div 2

RECURSIVE Pow2(_)
Pow2(h) == IF h = 0 THEN 1 ELSE 2 * Pow2(h - 1)

\* the least h with 2^h >= n, for n >= 1
RECURSIVE CeilLog2From(_, _)
CeilLog2From(n, h) == IF Pow2(h) >= n THEN h ELSE CeilLog2From(n, h + 1)
CeilLog2(n) == CeilLog2From(n, 0)

\* key shifted right by j bytes
RECURSIVE ShiftBytes(_, _)
ShiftBytes(key, j) == IF j = 0 THEN key ELSE ShiftBytes(key \div 256, j - 1)

\* digestOfKey: the hash of the 8-byte big-endian representation of the key
digestOfKey(key) == <<"sha256", [b \in 1..8 |-> ShiftBytes(key, 8 - b) % 256]>>

\* digestOfPair: the hash of left || right
digestOfPair(left, right) == <<"sha256", <<left, right>>>>

\* the pairwise fold of a level, a trailing odd element paired with itself
PairwiseFold(L) ==
    [k \in 1..CeilHalf(Len(L)) |->
        IF 2 * k <= Len(L)
        THEN digestOfPair(L[2 * k - 1], L[2 * k])
        ELSE digestOfPair(L[2 * k - 1], L[2 * k - 1])]

\* the pairwise fold applied until one digest remains
RECURSIVE FoldToRoot(_)
FoldToRoot(L) == IF Len(L) = 1 THEN L[1] ELSE FoldToRoot(PairwiseFold(L))

\* the digests of the keys appended so far, in append order
KeyDigests == [n \in 1..Len(keys) |-> digestOfKey(keys[n])]

\* the tree obtained by appending the keys of s, in order, to an empty tree
RECURSIVE TreeOf(_)
TreeOf(s) ==
    IF s = << >> THEN new
    ELSE append_tree(TreeOf(SubSeq(s, 1, Len(s) - 1)), s[Len(s)]).levels

\* the key sequences of length n
KeySeqsOfLen(n) == [1..n -> Keys]

\* the key sequences the model appends
KeySeqs == UNION {KeySeqsOfLen(n) : n \in 0..MaxAppends}

---------------------------------------------------------------------------
(* Claims *)

\* C1: after one or more appends, every level above the leaves has length
\* ceil(length of the level below / 2) and the topmost level has length 1.
C1_LevelLengths ==
    keys /= << >> =>
        /\ Len(levels) >= 1
        /\ Len(levels[1]) >= 1
        /\ \A i \in 1..(Len(levels) - 1) :
               Len(levels[i + 1]) = CeilHalf(Len(levels[i]))
        /\ Len(levels[Len(levels)]) = 1

\* five leaves: levels of length 5, 3, 2, 1
C1_Witness ==
    /\ Len(keys) = 5
    /\ Len(levels) = 4
    /\ Len(levels[1]) = 5 /\ Len(levels[2]) = 3
    /\ Len(levels[3]) = 2 /\ Len(levels[4]) = 1

\* C2: for keys k1..kn appended to an empty tree, root() is the repeated
\* pairwise fold of [digestOfKey(k1), ..., digestOfKey(kn)]; n = 1 gives
\* H(k1), n = 2 gives P(H(k1),H(k2)), n = 3 gives
\* P(P(H(k1),H(k2)), P(H(k3),H(k3))).
C2_RootIsFold ==
    LET H(n) == digestOfKey(keys[n]) IN
    /\ keys /= << >> => root(levels) = Some(FoldToRoot(KeyDigests))
    /\ Len(keys) = 1 => root(levels) = Some(H(1))
    /\ Len(keys) = 2 => root(levels) = Some(digestOfPair(H(1), H(2)))
    /\ Len(keys) = 3 =>
           root(levels) = Some(digestOfPair(digestOfPair(H(1), H(2)),
                                            digestOfPair(H(3), H(3))))

\* root() was called after three appends of keys that are not all equal
C2_Witness ==
    /\ Len(keys) = 3 /\ keys[1] /= keys[2]
    /\ lastOp = "root"
    /\ result = Some(FoldToRoot(KeyDigests))

\* C3 (as claimed): two different key sequences appended to empty trees
\* never yield the same root.
C3_RootCommitsToKeys ==
    \A s \in KeySeqs : root(TreeOf(s)) = root(levels) => s = keys

\* C3 (amended): two different key sequences of the same length appended to
\* empty trees never yield the same root.
C3_RootCommitsToKeysOfSameLength ==
    \A s \in KeySeqsOfLen(Len(keys)) :
        root(TreeOf(s)) = root(levels) => s = keys

\* four keys whose root is also the root of their first three keys, and a
\* different sequence of four keys to tell apart
C3_Witness ==
    /\ Len(keys) = 4 /\ keys[1] /= keys[2]
    /\ root(levels) = root(TreeOf(SubSeq(keys, 1, 3)))
    /\ \E s \in KeySeqsOfLen(4) : s /= keys /\ root(TreeOf(s)) /= root(levels)

\* C4: after n >= 1 appends the tree stores ceil(log2(n)) + 1 levels, and
\* one level for n = 1.
C4_LevelCount ==
    /\ keys /= << >> => Len(levels) = CeilLog2(Len(keys)) + 1
    /\ Len(keys) = 1 => Len(levels) = 1

\* five keys: ceil(log2(5)) + 1 = 4 levels
C4_Witness == Len(keys) = 5 /\ Len(levels) = 4 /\ lastOp = "append"

\* C5: the level list is empty exactly when no key was appended, and root()
\* returns None exactly in that case.
C5_EmptyIffNoAppend ==
    /\ levels = << >> <=> keys = << >>
    /\ root(levels) = None <=> keys = << >>
    /\ lastOp = "root" => (result = None <=> keys = << >>)

\* root() returned a digest after an append
C5_Witness == lastOp = "root" /\ keys /= << >> /\ result /= None

\* the leaf level, or the empty level when the tree has none
LeafLevel(lv) == IF lv = << >> THEN << >> ELSE lv[1]

\* C6: level 0 is [digestOfKey(k1), ..., digestOfKey(kn)], and each append(k)
\* adds digestOfKey(k) at its end and leaves the earlier leaves in place.
C6_LeavesAppendOnly ==
    /\ [](LeafLevel(levels) = KeyDigests)
    /\ [][keys' /= keys =>
            LeafLevel(levels') =
                Append(LeafLevel(levels), digestOfKey(keys'[Len(keys')]))]_vars

\* key 0 appended twice after another key
C6_Witness ==
    /\ keys = <<256, 0, 0>>
    /\ levels[1] = <<digestOfKey(256), digestOfKey(0), digestOfKey(0)>>

\* C7: root() leaves the level list unchanged, and a call of root() that
\* follows another with no append in between returns the same value.
C7_RootIsPureRead ==
    [][lastOp' = "root" =>
          /\ levels' = levels
          /\ lastOp = "root" => result' = result]_vars

\* root() returned the root of a tree of several levels
C7_Witness ==
    lastOp = "root" /\ Len(levels) >= 2 /\ result = Some(levels[Len(levels)][1])

\* C8: append runs to completion: its loop ends and no indexed access is
\* out of range.
C8_AppendCompletes == status = "ok"

\* an append that rebuilt a level of odd length above the leaves
C8_Witness ==
    /\ lastOp = "append" /\ status = "ok"
    /\ Len(levels) = 4 /\ Len(levels[2]) = 3

\* C9: after every append, every level above the leaves is the pairwise
\* fold of the level directly beneath it.
C9_LevelsAreFolds ==
    \A i \in 2..Len(levels) :
        /\ Len(levels[i]) = CeilHalf(Len(levels[i - 1]))
        /\ \A k \in 1..Len(levels[i]) :
               levels[i][k] =
                   IF 2 * k <= Len(levels[i - 1])
                   THEN digestOfPair(levels[i - 1][2 * k - 1], levels[i - 1][2 * k])
                   ELSE digestOfPair(levels[i - 1][2 * k - 1],
                                     levels[i - 1][2 * k - 1])

\* a level replaced by an append: three leaves over a level built for two
C9_Witness ==
    /\ lastOp = "append" /\ Len(keys) = 3 /\ keys[2] /= keys[3]
    /\ levels[2] = PairwiseFold(levels[1])

\* C10: the number of levels never decreases across an append, and the
\* truncate call of append removes no level.
C10_TruncateRemovesNothing ==
    /\ [](truncated = 0)
    /\ [][Len(levels') >= Len(levels)]_vars

\* an append that kept the height of the tree: four levels for six leaves
C10_Witness ==
    /\ lastOp = "append" /\ Len(keys) = 6 /\ Len(levels) = 4 /\ truncated = 0

====
